---- MODULE Spec2Model ----
(***************************************************************************)
(* Model of src/src/pages/Index.tsx: the Auth screen (handleAuth) and the  *)
(* Onboarding questionnaire (handleOptionToggle, handleTextInput, the      *)
(* Previous / Next / Complete controls and handleSubmit).                  *)
(*                                                                         *)
(* JavaScript values are modelled by records of one shape,                 *)
(*   [kind, str, arr], kind \in {"undefined", "string", "array"},          *)
(* so that a string, an array and a missing entry can be told apart and    *)
(* compared. The answers object is a function whose DOMAIN is the set of   *)
(* own keys of the object.                                                 *)
(***************************************************************************)
EXTENDS Integers, Sequences, FiniteSets, TLC

(***************************************************************************)
(* Bounds of the model (inputs the modelled user and backend may produce). *)
(***************************************************************************)
\* options of learning_goals and of daily_time the user clicks (the first
\* MaxOpts of the list); of domain_interests and learning_style the user
\* clicks the first option only
MaxOpts == 2
\* non-empty texts the user types into the free-text question
MaxTexts == 1
\* runs of handleSubmit started by one mounted Onboarding view
MaxRuns == 1
\* user events handled while one run of handleSubmit is suspended
MaxPendingEvents == 1
\* runs of handleAuth started by one mounted Auth view
MaxAuthRuns == 3

VARIABLES
    \* ---- Onboarding component state (useState) ----
    currentQuestion,   \* 0-based index into questions
    answers,           \* Record<string, any>
    loading,           \* Onboarding's loading flag
    \* ---- one run of handleSubmit ----
    submitPc,          \* "idle" | "getUser" | "insert" | "update"
    submitAnswers,     \* the answers object the running closure captured
    submitUser,        \* user returned by getUser in this run
    request,           \* payload of the insert request in flight
    runCalls,          \* backend calls returned in the current or last run
    runToasts,         \* notices shown by the current or last run
    runs,              \* runs of handleSubmit started so far
    pendingEvents,     \* user events handled during the current run
    \* ---- environment ----
    route,             \* current route of the application
    responseRows,      \* rows in onboarding_responses
    statusCompleted,   \* onboarding_status.is_completed
    \* ---- history (observation only) ----
    toggledOdd,        \* multi-select key -> options toggled an odd number
                       \* of times
    lastOption,        \* option of the last handleOptionToggle call on a
                       \* single-select question, Null if none
    lastReplaced,      \* that call found another option stored
    touched,           \* keys whose question received a handleOptionToggle
                       \* or handleTextInput call
    visited,           \* indexes that have been the current question
    startQuestion,     \* currentQuestion when the last run started, -1 if none
    \* ---- Auth component state and one run of handleAuth ----
    authLoading,       \* Auth's loading flag
    authPc,            \* "idle" | "signIn" | "getUser" | "profile" |
                       \* "signUp" | "delay" | "insert"
    authIsLogin,       \* isLogin of the current or last run
    authUser,          \* authData.user / user of the current run
    authCalls,         \* backend calls returned in the current or last run
    authToasts,        \* notices shown by the current or last run
    authNav,           \* navigations of the current or last run
    authRuns,          \* runs of handleAuth started so far
    session,           \* user of the backend client's session, or Null
    registered,        \* the backend holds an account for the email
    statusRows         \* rows in onboarding_status

onbVars == <<currentQuestion, answers, loading, submitPc, submitAnswers,
             submitUser, request, runCalls, runToasts, runs, pendingEvents,
             route, responseRows, statusCompleted, toggledOdd, lastOption,
             lastReplaced, touched, visited, startQuestion>>

\* the Onboarding variables but the route
onbState == <<currentQuestion, answers, loading, submitPc, submitAnswers,
              submitUser, request, runCalls, runToasts, runs, pendingEvents,
              responseRows, statusCompleted, toggledOdd, lastOption,
              lastReplaced, touched, visited, startQuestion>>

authVars == <<authLoading, authPc, authIsLogin, authUser, authCalls,
              authToasts, authNav, authRuns, session, registered, statusRows>>

(***************************************************************************)
(* JavaScript values                                                       *)
(***************************************************************************)
Undef == [kind |-> "undefined", str |-> "", arr |-> <<>>]
Str(s) == [kind |-> "string", str |-> s, arr |-> <<>>]
Arr(a) == [kind |-> "array", str |-> "", arr |-> a]

\* ToBoolean(v) = false: undefined and "" are falsy, every array is truthy
Falsy(v) == v.kind = "undefined" \/ (v.kind = "string" /\ v.str = "")

\* a || b
OrElse(a, b) == IF Falsy(a) THEN b ELSE a

\* obj[key]: undefined when the object has no such own key
Get(obj, key) == IF key \in DOMAIN obj THEN obj[key] ELSE Undef

\* Spread without the copy of the other keys
SpreadForget(obj, key, value) == [k \in {key} |-> value]

\* { ...obj, [key]: value }
Spread(obj, key, value) ==
    [k \in (DOMAIN obj) \cup {key} |-> IF k = key THEN value ELSE obj[k]]

\* {} : the object with no own key
EmptyObject == [k \in {} |-> Undef]

Null == "<null>"

Min(a, b) == IF a < b THEN a ELSE b

Range(s) == {s[i] : i \in 1..Len(s)}

(***************************************************************************)
(* const questions = [...]                                                 *)
(***************************************************************************)
questions == <<
    [key |-> "learning_goals",
     options |-> <<"Improving skills", "Preparing for exams",
                   "Exploring a new field", "Personal growth">>,
     singleSelect |-> FALSE, isText |-> FALSE],
    [key |-> "domain_interests",
     options |-> <<"Technical: Coding", "Technical: AI/ML",
                   "Technical: Cybersecurity", "Non-Technical: Marketing",
                   "Non-Technical: Content Writing",
                   "Non-Technical: Management", "Non-Technical: Design">>,
     singleSelect |-> FALSE, isText |-> FALSE],
    [key |-> "learning_style",
     options |-> <<"Video tutorials", "Interactive quizzes", "Reading",
                   "Peer-to-peer learning">>,
     singleSelect |-> FALSE, isText |-> FALSE],
    [key |-> "daily_time",
     options |-> <<"Less than 30 minutes", "1 hour", "2+ hours">>,
     singleSelect |-> TRUE, isText |-> FALSE],
    [key |-> "specific_goals",
     options |-> <<>>,
     singleSelect |-> FALSE, isText |-> TRUE] >>

\* questions.length
N == Len(questions)

Keys == {questions[i].key : i \in 1..N}

\* const currentQ = questions[currentQuestion]
currentQ == questions[currentQuestion + 1]

MultiKeys == {questions[i].key : i \in {j \in 1..N :
                  ~questions[j].singleSelect /\ ~questions[j].isText}}

(***************************************************************************)
(* Inputs of the modelled user and backend                                 *)
(***************************************************************************)
ClickCount(q) ==
    IF q.key \in {"learning_goals", "daily_time"} THEN MaxOpts ELSE 1

\* the rendered options the modelled user clicks
Clickable(q) ==
    {q.options[i] : i \in 1..Min(Len(q.options), ClickCount(q))}

TextPool == <<"AWS SAA", "CKA", "PMP", "GRE">>

\* the values the user leaves in the textarea
Texts == {""} \cup {TextPool[i] : i \in 1..Min(Len(TextPool), MaxTexts)}

Users == {"user-1"}

\* error objects: null, or an object with a message
NoError == [isError |-> FALSE, message |-> Undef]
Err(message) == [isError |-> TRUE, message |-> message]

\* a backend call that returned: its name, its error and its data
Call(name, error, data) == [call |-> name, error |-> error, data |-> data]

\* the error objects the backend returns to handleSubmit
BackendErrors == {Err(Str("permission denied"))}

(***************************************************************************)
(* Onboarding: pure parts of the handlers                                  *)
(***************************************************************************)
\* currentAnswers.filter((a) => a !== option)
RECURSIVE Filter(_, _)
Filter(arr, option) ==
    IF arr = <<>> THEN <<>>
    ELSE IF Head(arr) # option
         THEN <<Head(arr)>> \o Filter(Tail(arr), option)
         ELSE Filter(Tail(arr), option)

\* currentAnswers.includes(option)
Includes(arr, option) == \E i \in 1..Len(arr) : arr[i] = option

\* ToggleResult with the removal of a stored option left out
ToggleResultAppendOnly(ans, q, option) ==
    IF q.singleSelect
    THEN Spread(ans, q.key, Str(option))
    ELSE IF ~q.isText
    THEN Spread(ans, q.key,
             Arr(Append(OrElse(Get(ans, q.key), Arr(<<>>)).arr, option)))
    ELSE ans

\* ToggleResult with the singleSelect flag ignored
ToggleResultIgnoreSingle(ans, q, option) ==
    IF ~q.isText
    THEN LET currentAnswers ==
                 IF Get(ans, q.key).kind = "array" THEN Get(ans, q.key).arr
                 ELSE <<>>
             updatedAnswers ==
                 IF Includes(currentAnswers, option)
                 THEN Filter(currentAnswers, option)
                 ELSE Append(currentAnswers, option)
         IN  Spread(ans, q.key, Arr(updatedAnswers))
    ELSE ans

\* ToggleResult that deletes the entry when the last option is removed
ToggleResultDropEmpty(ans, q, option) ==
    IF q.singleSelect
    THEN Spread(ans, q.key, Str(option))
    ELSE IF ~q.isText
    THEN LET currentAnswers == OrElse(Get(ans, q.key), Arr(<<>>)).arr
             updatedAnswers ==
                 IF Includes(currentAnswers, option)
                 THEN Filter(currentAnswers, option)
                 ELSE Append(currentAnswers, option)
         IN  IF updatedAnswers = <<>>
             THEN [k \in (DOMAIN ans) \ {q.key} |-> ans[k]]
             ELSE Spread(ans, q.key, Arr(updatedAnswers))
    ELSE ans

\* the object handleOptionToggle passes to setAnswers, for question q of the
\* render whose answers object is ans; ans itself when it calls nothing
ToggleResult(ans, q, option) ==
    IF q.singleSelect
    THEN Spread(ans, q.key, Str(option))
    ELSE IF ~q.isText
    THEN LET currentAnswers == OrElse(Get(ans, q.key), Arr(<<>>)).arr
             updatedAnswers ==
                 IF Includes(currentAnswers, option)
                 THEN Filter(currentAnswers, option)
                 ELSE Append(currentAnswers, option)
         IN  Spread(ans, q.key, Arr(updatedAnswers))
    ELSE ans

\* the object handleTextInput passes to setAnswers
\* TextResult storing the value wrapped in a list
TextResultAsList(ans, q, value) == Spread(ans, q.key, Arr(<<value>>))

TextResult(ans, q, value) == Spread(ans, q.key, Str(value))

\* value={answers[currentQ.key] || ""} of the textarea
TextareaValue(ans, q) == OrElse(Get(ans, q.key), Str("")).str

\* checked={...} of the Checkbox of one option
Checked(ans, q, option) ==
    IF q.singleSelect
    THEN Get(ans, q.key) = Str(option)
    ELSE Includes(OrElse(Get(ans, q.key), Arr(<<>>)).arr, option)

\* {currentQuestion > 0 && <Button>Previous</Button>}
PreviousRendered(cq) == cq > 0

\* NextRendered with the bound on the index left out
NextRenderedAlways(cq) == TRUE

\* {currentQuestion < questions.length - 1 ? <Button>Next</Button> : ...}
NextRendered(cq) == cq < N - 1

\* CompleteRendered on every step
CompleteRenderedAlways(cq) == TRUE

\* ... : <Button onClick={handleSubmit} disabled={loading}>
CompleteRendered(cq) == ~(cq < N - 1)

\* CompleteEnabled without the disabled attribute
CompleteEnabledIgnoringLoading(cq, ld) == CompleteRendered(cq)

CompleteEnabled(cq, ld) == CompleteRendered(cq) /\ ~ld

\* BuildRecord with the empty list as the default of every field
BuildRecordArrayDefaults(user, ans) ==
    [user_id |-> user,
     learning_goals |-> OrElse(Get(ans, "learning_goals"), Arr(<<>>)),
     domain_interests |-> OrElse(Get(ans, "domain_interests"), Arr(<<>>)),
     learning_style |-> OrElse(Get(ans, "learning_style"), Arr(<<>>)),
     daily_time |-> OrElse(Get(ans, "daily_time"), Arr(<<>>)),
     specific_goals |-> OrElse(Get(ans, "specific_goals"), Arr(<<>>))]

\* the row handleSubmit inserts into onboarding_responses
BuildRecord(user, ans) ==
    [user_id |-> user,
     learning_goals |-> OrElse(Get(ans, "learning_goals"), Arr(<<>>)),
     domain_interests |-> OrElse(Get(ans, "domain_interests"), Arr(<<>>)),
     learning_style |-> OrElse(Get(ans, "learning_style"), Arr(<<>>)),
     daily_time |-> OrElse(Get(ans, "daily_time"), Str("")),
     specific_goals |-> OrElse(Get(ans, "specific_goals"), Str(""))]

NoRequest == BuildRecord(Null, EmptyObject)

\* if (!user) throw ... / if (responseError) throw ... / if (statusError) throw ...
\* Thrown with the check of the returned error left out
ThrownNever(error) == FALSE

UserMissing(user) == user = Null
Thrown(error) == error.isError

\* SubmitErrorToast without the destructive variant
SubmitErrorToastDefault(error) ==
    [title |-> "Error", description |-> error.message, variant |-> "default"]

\* toast({ title: "Error", description: error.message, variant: "destructive" })
SubmitErrorToast(error) ==
    [title |-> "Error", description |-> error.message,
     variant |-> "destructive"]

(***************************************************************************)
(* Onboarding: initial state                                               *)
(***************************************************************************)
OnbFresh ==
    /\ currentQuestion = 0
    /\ answers = EmptyObject
    /\ loading = FALSE
    /\ submitPc = "idle"
    /\ submitAnswers = EmptyObject
    /\ submitUser = Null
    /\ request = NoRequest
    /\ runCalls = <<>>
    /\ runToasts = <<>>
    /\ runs = 0
    /\ pendingEvents = 0
    /\ responseRows = 0
    /\ statusCompleted = FALSE
    /\ toggledOdd = [k \in MultiKeys |-> {}]
    /\ lastOption = Null
    /\ lastReplaced = FALSE
    /\ touched = {}
    /\ visited = {0}
    /\ startQuestion = -1

OnbInit ==
    /\ route = "/onboarding"
    /\ OnbFresh

(***************************************************************************)
(* Onboarding: user events. The view handles events while it is mounted;   *)
(* the state a handler reads is that of the latest render.                 *)
(***************************************************************************)
Mounted == route = "/onboarding"

\* a user event is handled; those handled during a run are counted
UserEvent ==
    /\ Mounted
    /\ UNCHANGED authVars
    /\ IF submitPc = "idle"
       THEN pendingEvents' = pendingEvents
       ELSE /\ pendingEvents < MaxPendingEvents
            /\ pendingEvents' = pendingEvents + 1

submitVars == <<loading, submitPc, submitAnswers, submitUser, request,
                runCalls, runToasts, runs, route, responseRows,
                statusCompleted, startQuestion>>

handleOptionToggle ==
    \E option \in Clickable(currentQ) :
        /\ UserEvent
        /\ ~currentQ.isText
        /\ answers' = ToggleResult(answers, currentQ, option)
        /\ toggledOdd' =
               IF currentQ.key \in MultiKeys
               THEN [toggledOdd EXCEPT ![currentQ.key] =
                        IF option \in @ THEN @ \ {option} ELSE @ \cup {option}]
               ELSE toggledOdd
        /\ lastOption' = IF currentQ.singleSelect THEN option ELSE lastOption
        /\ lastReplaced' =
               IF currentQ.singleSelect
               THEN Get(answers, currentQ.key) \notin {Undef, Str(option)}
               ELSE lastReplaced
        /\ touched' = touched \cup {currentQ.key}
        /\ UNCHANGED <<currentQuestion, visited, submitVars>>

handleTextInput ==
    \E value \in Texts :
        /\ UserEvent
        /\ currentQ.isText
        /\ value # TextareaValue(answers, currentQ)
        /\ answers' = TextResult(answers, currentQ, value)
        /\ touched' = touched \cup {currentQ.key}
        /\ UNCHANGED <<currentQuestion, visited, toggledOdd, lastOption,
                       lastReplaced, submitVars>>

Previous ==
    /\ UserEvent
    /\ PreviousRendered(currentQuestion)
    /\ currentQuestion' = currentQuestion - 1
    /\ visited' = visited \cup {currentQuestion'}
    /\ UNCHANGED <<answers, toggledOdd, lastOption, lastReplaced, touched,
                   submitVars>>

NextQuestion ==
    /\ UserEvent
    /\ NextRendered(currentQuestion)
    /\ currentQuestion' = currentQuestion + 1
    /\ visited' = visited \cup {currentQuestion'}
    /\ UNCHANGED <<answers, toggledOdd, lastOption, lastReplaced, touched,
                   submitVars>>

(***************************************************************************)
(* Onboarding: handleSubmit, one action per stretch between two awaits     *)
(***************************************************************************)
uiVars == <<currentQuestion, answers, toggledOdd, lastOption, lastReplaced,
            touched, visited>>

\* the run ends: its closure and its locals are dropped
SubmitEnd ==
    /\ submitPc' = "idle"
    /\ submitAnswers' = EmptyObject
    /\ submitUser' = Null
    /\ pendingEvents' = 0

\* the catch and finally blocks
SubmitFail(error) ==
    /\ runToasts' = Append(runToasts, SubmitErrorToast(error))
    /\ loading' = FALSE
    /\ SubmitEnd

\* click on Complete: setLoading(true), then await getUser()
Complete ==
    /\ Mounted
    /\ CompleteEnabled(currentQuestion, loading)
    /\ runs < MaxRuns
    /\ runs' = runs + 1
    /\ loading' = TRUE
    /\ submitPc' = "getUser"
    /\ submitAnswers' = answers
    /\ submitUser' = Null
    /\ request' = NoRequest
    /\ runCalls' = <<>>
    /\ runToasts' = <<>>
    /\ pendingEvents' = 0
    /\ startQuestion' = currentQuestion
    /\ UNCHANGED <<uiVars, route, responseRows, statusCompleted, authVars>>

\* ClosureAnswers reading the state of the latest render
ClosureAnswersLatest == answers

\* the answers constant of the render whose handleSubmit was called
ClosureAnswers == submitAnswers

\* getUser() returns: throw, or issue the insert
SubmitGetUser ==
    \E user \in Users \cup {Null} :
        /\ submitPc = "getUser"
        /\ runCalls' = Append(runCalls, Call("getUser", NoError, user))
        /\ IF UserMissing(user)
           THEN /\ SubmitFail(Err(Str("No user found")))
                /\ UNCHANGED request
           ELSE /\ submitUser' = user
                /\ request' = BuildRecord(user, ClosureAnswers)
                /\ submitPc' = "insert"
                /\ UNCHANGED <<runToasts, loading, submitAnswers,
                               pendingEvents>>
        /\ UNCHANGED <<uiVars, runs, route, responseRows, statusCompleted,
                       startQuestion, authVars>>

\* the insert returns: throw, or issue the update
SubmitInsert ==
    \E responseError \in BackendErrors \cup {NoError} :
        /\ submitPc = "insert"
        /\ runCalls' = Append(runCalls,
               Call("onboarding_responses.insert", responseError, Null))
        /\ \* the backend stores the row unless it reports an error
           responseRows' = IF responseError.isError THEN responseRows
                           ELSE responseRows + 1
        /\ IF Thrown(responseError)
           THEN SubmitFail(responseError)
           ELSE /\ submitPc' = "update"
                /\ UNCHANGED <<runToasts, loading, submitAnswers, submitUser,
                               pendingEvents>>
        /\ request' = NoRequest
        /\ UNCHANGED <<uiVars, runs, route, statusCompleted, startQuestion,
                       authVars>>

\* the update returns: throw, or navigate("/dashboard"); then finally
SubmitUpdate ==
    \E statusError \in BackendErrors \cup {NoError} :
        /\ submitPc = "update"
        /\ runCalls' = Append(runCalls,
               Call("onboarding_status.update", statusError, Null))
        /\ \* the backend updates the row unless it reports an error
           statusCompleted' = (statusCompleted \/ ~statusError.isError)
        /\ IF Thrown(statusError)
           THEN /\ SubmitFail(statusError)
                /\ UNCHANGED route
           ELSE /\ route' = "/dashboard"
                /\ loading' = FALSE
                /\ SubmitEnd
                /\ UNCHANGED runToasts
        /\ UNCHANGED <<uiVars, request, runs, responseRows, startQuestion,
                       authVars>>

(***************************************************************************)
(* Auth: strings                                                           *)
(***************************************************************************)
UpperCaseLetters == "ABCDEFGHIJKLMNOPQRSTUVWXYZ"
LowerCaseLetters == "abcdefghijklmnopqrstuvwxyz"

CharAt(s, i) == SubSeq(s, i, i)

LowerChar(c) ==
    IF \E i \in 1..Len(UpperCaseLetters) : CharAt(UpperCaseLetters, i) = c
    THEN CharAt(LowerCaseLetters,
                CHOOSE i \in 1..Len(UpperCaseLetters) :
                    CharAt(UpperCaseLetters, i) = c)
    ELSE c

\* ToLowerCase that keeps the case
ToLowerCaseIdentity(s) == s

\* String.prototype.toLowerCase
RECURSIVE ToLowerCase(_)
ToLowerCase(s) ==
    IF Len(s) = 0 THEN ""
    ELSE LowerChar(CharAt(s, 1)) \o ToLowerCase(SubSeq(s, 2, Len(s)))

\* String.prototype.includes
StringIncludes(s, sub) ==
    \E i \in 1..(Len(s) - Len(sub) + 1) : SubSeq(s, i, i + Len(sub) - 1) = sub

(***************************************************************************)
(* Auth: inputs                                                            *)
(***************************************************************************)
SignInErrors == {Err(Str("Invalid login credentials")), Err(Str(""))}

SignUpErrors ==
    {Err(Str("User already registered")),
     Err(Str("A user with this email address Already Exists")),
     Err(Str("user already registered")),
     Err(Str("Password should be at least 6 characters")),
     Err(Undef)}

ProfileErrors == {Err(Str("permission denied"))}

StatusInsertErrors ==
    {Err(Str("permission denied")),
     Err(Str("relation \"onboarding_status\" row already exists"))}

(***************************************************************************)
(* Auth: pure parts of handleAuth                                          *)
(***************************************************************************)
\* the condition of the inner catch block
AccountExists(error) ==
    /\ error.message.kind = "string"
    /\ \/ StringIncludes(error.message.str, "User already registered")
       \/ StringIncludes(ToLowerCase(error.message.str), "already exists")

AccountExistsToast ==
    [title |-> "Account Exists",
     description |->
         Str("An account with this email already exists. Please sign in instead."),
     variant |-> "destructive"]

\* AuthErrorToast that drops the message of the error
AuthErrorToastGeneric(error) ==
    [title |-> "Error",
     description |-> Str("An error occurred during authentication"),
     variant |-> "destructive"]

\* the toast of the outer catch block
AuthErrorToast(error) ==
    [title |-> "Error",
     description |->
         OrElse(error.message, Str("An error occurred during authentication")),
     variant |-> "destructive"]

SuccessToast ==
    [title |-> "Success",
     description |->
         Str("Account created successfully! Please check your email to verify your account."),
     variant |-> "default"]

\* the AuthForm submits while it is not loading
AuthSubmitEnabled(ld) == ~ld

\* UserPresent with the check of authData.user left out
UserPresentAlways(user) == TRUE

\* if (authData.user) { ... }
UserPresent(user) == user # Null

\* ProfileMissing with the check of the record left out
ProfileMissingNever(profile) == FALSE

\* if (!profile) throw ...
ProfileMissing(profile) == profile = Null

(***************************************************************************)
(* Auth: initial state                                                     *)
(***************************************************************************)
AuthFresh ==
    /\ authLoading = FALSE
    /\ authPc = "idle"
    /\ authIsLogin = TRUE
    /\ authUser = Null
    /\ authCalls = <<>>
    /\ authToasts = <<>>
    /\ authNav = <<>>
    /\ authRuns = 0
    /\ session = Null
    /\ registered = FALSE
    /\ statusRows = 0

(***************************************************************************)
(* Auth: handleAuth, one action per stretch between two awaits             *)
(***************************************************************************)
AuthMounted == route = "/auth"

\* finally { setLoading(false) }: the run ends
AuthFinally ==
    /\ authLoading' = FALSE
    /\ authPc' = "idle"
    /\ authUser' = Null

\* the outer catch block, then finally
AuthOuterCatch(error) ==
    /\ authToasts' = Append(authToasts, AuthErrorToast(error))
    /\ AuthFinally
    /\ UNCHANGED <<authNav, route>>

\* AuthInnerCatch whose early return leaves the loading flag set
AuthInnerCatchNoReset(error) ==
    IF AccountExists(error)
    THEN /\ authToasts' = Append(authToasts, AccountExistsToast)
         /\ authPc' = "idle"
         /\ authUser' = Null
         /\ UNCHANGED <<authLoading, authNav, route>>
    ELSE AuthOuterCatch(error)

\* the inner catch block of the sign-up flow
AuthInnerCatch(error) ==
    IF AccountExists(error)
    THEN /\ authToasts' = Append(authToasts, AccountExistsToast)
         /\ AuthFinally
         /\ UNCHANGED <<authNav, route>>
    ELSE AuthOuterCatch(error)

\* navigate(path), then finally
AuthNavigate(path) ==
    /\ authNav' = Append(authNav, path)
    /\ route' = path
    /\ AuthFinally

\* the form is submitted: setLoading(true), then the first await
handleAuth ==
    \E isLogin \in BOOLEAN :
        /\ AuthMounted
        /\ AuthSubmitEnabled(authLoading)
        /\ authRuns < MaxAuthRuns
        /\ authRuns' = authRuns + 1
        /\ authLoading' = TRUE
        /\ authIsLogin' = isLogin
        /\ authPc' = IF isLogin THEN "signIn" ELSE "signUp"
        /\ authUser' = Null
        /\ authCalls' = <<>>
        /\ authToasts' = <<>>
        /\ authNav' = <<>>
        /\ UNCHANGED <<route, session, registered, statusRows, onbState>>

\* signInWithPassword returns
AuthSignIn ==
    \E signInError \in SignInErrors \cup {NoError} :
        /\ authPc = "signIn"
        /\ authCalls' = Append(authCalls,
               Call("signInWithPassword", signInError, Null))
        /\ IF Thrown(signInError)
           THEN AuthOuterCatch(signInError) /\ UNCHANGED session
           ELSE /\ authPc' = "getUser"
                /\ session' \in Users
                /\ UNCHANGED <<authLoading, authUser, authToasts, authNav,
                               route>>
        /\ UNCHANGED <<authIsLogin, authRuns, registered, statusRows,
                       onbState>>

\* getUser returns the user of the session, or none when the session is
\* gone or cannot be verified
AuthGetUser ==
    \E user \in {session, Null} :
        /\ authPc = "getUser"
        /\ authCalls' = Append(authCalls, Call("getUser", NoError, user))
        /\ IF UserMissing(user)
           THEN AuthOuterCatch(Err(Str("No user found after login")))
           ELSE /\ authPc' = "profile"
                /\ authUser' = user
                /\ UNCHANGED <<authLoading, authToasts, authNav, route>>
        /\ UNCHANGED <<authIsLogin, authRuns, session, registered,
                       statusRows, onbState>>

\* the profiles query returns
AuthProfile ==
    \E result \in {<<NoError, authUser>>, <<NoError, Null>>}
                  \cup {<<e, Null>> : e \in ProfileErrors} :
        LET profileError == result[1]
            profile == result[2]
        IN  /\ authPc = "profile"
            /\ authCalls' = Append(authCalls,
                   Call("profiles.select", profileError, profile))
            /\ IF Thrown(profileError)
               THEN AuthOuterCatch(Err(Str("Failed to verify user profile")))
               ELSE IF ProfileMissing(profile)
               THEN AuthOuterCatch(
                        Err(Str("Profile not found. Please contact support.")))
               ELSE AuthNavigate("/dashboard") /\ UNCHANGED authToasts
            /\ UNCHANGED <<authIsLogin, authRuns, session, registered,
                           statusRows, onbState>>

\* signUp returns; a new account is signed in at once when the backend asks
\* for no confirmation of the email
AuthSignUp ==
    \E result \in {<<NoError, u>> : u \in Users \cup {Null}}
                  \cup {<<e, Null>> : e \in SignUpErrors} :
        LET signUpError == result[1]
            user == result[2]
        IN  /\ authPc = "signUp"
            /\ authCalls' = Append(authCalls, Call("signUp", signUpError, user))
            /\ registered' = (registered \/ user # Null)
            /\ session' \in IF user # Null THEN {session, user} ELSE {session}
            /\ IF Thrown(signUpError)
               THEN AuthInnerCatch(signUpError)
               ELSE IF UserPresent(user)
               THEN /\ authPc' = "delay"
                    /\ authUser' = user
                    /\ UNCHANGED <<authLoading, authToasts, authNav, route>>
               ELSE /\ AuthFinally
                    /\ UNCHANGED <<authToasts, authNav, route>>
            /\ UNCHANGED <<authIsLogin, authRuns, statusRows, onbState>>

\* the 2000 ms timer fires: the insert into onboarding_status is issued
AuthDelay ==
    /\ authPc = "delay"
    /\ authPc' = "insert"
    /\ authCalls' = Append(authCalls, Call("setTimeout", NoError, Null))
    /\ UNCHANGED <<authLoading, authIsLogin, authUser, authToasts, authNav,
                   authRuns, session, registered, statusRows, route,
                   onbState>>

\* the insert into onboarding_status returns
AuthInsert ==
    \E onboardingError \in StatusInsertErrors \cup {NoError} :
        /\ authPc = "insert"
        /\ authCalls' = Append(authCalls,
               Call("onboarding_status.insert", onboardingError, Null))
        /\ IF Thrown(onboardingError)
           THEN /\ AuthInnerCatch(Err(Str("Failed to initialize onboarding")))
                /\ UNCHANGED statusRows
           ELSE /\ statusRows' = statusRows + 1
                /\ authToasts' = Append(authToasts, SuccessToast)
                /\ AuthNavigate("/onboarding")
        /\ UNCHANGED <<authIsLogin, authRuns, session, registered, onbState>>

(***************************************************************************)
(* Specifications                                                          *)
(***************************************************************************)
vars == <<onbVars, authVars>>

\* the Onboarding view is mounted; no run of handleAuth is in flight
Init == OnbInit /\ AuthFresh

Next ==
    \/ handleOptionToggle
    \/ handleTextInput
    \/ Previous
    \/ NextQuestion
    \/ Complete
    \/ SubmitGetUser
    \/ SubmitInsert
    \/ SubmitUpdate

Spec == Init /\ [][Next]_vars

\* the Auth view is mounted
AuthInit == route = "/auth" /\ OnbFresh /\ AuthFresh

AuthNext ==
    \/ handleAuth
    \/ AuthSignIn
    \/ AuthGetUser
    \/ AuthProfile
    \/ AuthSignUp
    \/ AuthDelay
    \/ AuthInsert

AuthSpec == AuthInit /\ [][AuthNext]_vars

(***************************************************************************)
(* Both views, with the backend answering every call. The application      *)
(* opens on the Auth view or directly on the Onboarding view. The          *)
(* Onboarding view mounted by a sign-up starts in the state OnbFresh too   *)
(* and reads no variable of the Auth view: its behaviours are those of the *)
(* view opened directly and are explored from there only.                  *)
(***************************************************************************)
OpenedDirectly == authRuns = 0

AppInit == route \in {"/auth", "/onboarding"} /\ OnbFresh /\ AuthFresh

AppNext ==
    \/ OpenedDirectly /\ handleOptionToggle
    \/ OpenedDirectly /\ handleTextInput
    \/ OpenedDirectly /\ Previous
    \/ OpenedDirectly /\ NextQuestion
    \/ OpenedDirectly /\ Complete
    \/ OpenedDirectly /\ SubmitGetUser
    \/ OpenedDirectly /\ SubmitInsert
    \/ OpenedDirectly /\ SubmitUpdate
    \/ handleAuth
    \/ AuthSignIn
    \/ AuthGetUser
    \/ AuthProfile
    \/ AuthSignUp
    \/ AuthDelay
    \/ AuthInsert

\* a pending backend call or timer of either view returns
BackendReturns ==
    \/ OpenedDirectly /\ (SubmitGetUser \/ SubmitInsert \/ SubmitUpdate)
    \/ AuthSignIn
    \/ AuthGetUser
    \/ AuthProfile
    \/ AuthSignUp
    \/ AuthDelay
    \/ AuthInsert

\* every backend call and the fixed delay eventually return
AppSpec == AppInit /\ [][AppNext]_vars /\ WF_vars(BackendReturns)

(***************************************************************************)
(* Properties of the Onboarding sequencer (specification Spec)             *)
(***************************************************************************)
NoDuplicates(arr) == \A i, j \in 1..Len(arr) : arr[i] = arr[j] => i = j

\* C1: for every multi-select question, after any sequence of
\* handleOptionToggle calls (one per render, starting from no answer) the
\* stored answer holds exactly the options toggled an odd number of times,
\* each at most once.
C1_ToggleParity ==
    \A k \in MultiKeys :
        LET v == Get(answers, k)
        IN  /\ v.kind \in {"undefined", "array"}
            /\ Range(v.arr) = toggledOdd[k]
            /\ NoDuplicates(v.arr)

\* two options stored in the order of their last addition, and a question
\* whose only toggled option was toggled off again
C1_Witness ==
    /\ Get(answers, "learning_goals") =
           Arr(<<"Preparing for exams", "Improving skills">>)
    /\ Get(answers, "domain_interests") = Arr(<<>>)
    /\ toggledOdd["domain_interests"] = {}

\* C2: currentQuestion stays in [0, N-1]; Previous is not available at
\* index 0 and Next is not available at index N-1.
C2_IndexInRange ==
    /\ currentQuestion \in 0..(N - 1)
    /\ N = 5
    /\ currentQuestion = 0 => ~ENABLED Previous
    /\ currentQuestion = N - 1 => ~ENABLED NextQuestion

\* back on the first question after a run of handleSubmit and some answers
C2_Witness ==
    /\ currentQuestion = 0
    /\ runs >= 1
    /\ DOMAIN answers = Keys

\* C3: handleSubmit starts only at index N-1, the index changes by exactly
\* +1 or -1, and once a run has started every index has been the current
\* question.
C3_LinearTraversal ==
    /\ [](runs > 0 => visited = 0..(N - 1))
    /\ [][/\ runs' # runs => currentQuestion = N - 1 /\ startQuestion' = N - 1
          /\ currentQuestion' # currentQuestion =>
                 currentQuestion' - currentQuestion \in {1, -1}]_vars

\* a run of handleSubmit has just started
C3_Witness ==
    /\ submitPc = "getUser"
    /\ runs = 1
    /\ visited = 0..(N - 1)
    /\ currentQuestion = N - 1

\* C4: the stored answer of the single-select question is exactly the option
\* of the last handleOptionToggle call on it: one string, never a list.
C4_SingleSelectLast ==
    LET q == CHOOSE x \in Range(questions) : x.singleSelect
    IN  /\ q.key = "daily_time"
        /\ IF lastOption = Null
           THEN q.key \notin DOMAIN answers
           ELSE answers[q.key] = Str(lastOption)
        /\ \A option \in Range(q.options) :
               Checked(answers, q, option) <=> option = lastOption

\* option B chosen while option A was stored
C4_Witness ==
    /\ lastOption = "1 hour"
    /\ lastReplaced
    /\ Get(answers, "daily_time") = Str("1 hour")

\* the type-appropriate empty value of a question key
EmptyValue(k) == IF k \in MultiKeys THEN Arr(<<>>) ELSE Str("")

\* C5: the record handleSubmit inserts has, for each question key, the stored
\* answer when one exists and else the empty value of the question's type;
\* a run fails only on a backend outcome, never on an unanswered question.
C5_RecordDefaults ==
    /\ submitPc = "insert" =>
           /\ request.user_id = submitUser
           /\ \A k \in Keys :
                  request[k] = IF k \in DOMAIN submitAnswers
                               THEN submitAnswers[k]
                               ELSE EmptyValue(k)
    /\ runToasts # <<>> =>
           \/ runCalls[Len(runCalls)].error.isError
           \/ runCalls[Len(runCalls)] = Call("getUser", NoError, Null)

\* questions 1-3 answered, 4 and 5 left blank, insert in flight
C5_Witness ==
    /\ submitPc = "insert"
    /\ DOMAIN submitAnswers =
           {"learning_goals", "domain_interests", "learning_style"}
    /\ request.daily_time = Str("")
    /\ request.specific_goals = Str("")
    /\ request.learning_goals.arr # <<>>

SubmitOrder ==
    <<"getUser", "onboarding_responses.insert", "onboarding_status.update">>

Succeeded(c) == ~c.error.isError /\ (c.call = "getUser" => c.data # Null)

\* C6: within one run of handleSubmit the calls are getUser, one insert, one
\* update, then the navigation; each is issued only after the one before
\* returned without error (getUser: with a user).
C6_SubmitOrder ==
    LET n == Len(runCalls)
    IN  /\ n <= Len(SubmitOrder)
        /\ \A i \in 1..n : runCalls[i].call = SubmitOrder[i]
        /\ \A i \in 1..(n - 1) : Succeeded(runCalls[i])
        /\ submitPc = "getUser" => n = 0
        /\ submitPc = "insert" => n = 1 /\ Succeeded(runCalls[1])
        /\ submitPc = "update" => n = 2 /\ Succeeded(runCalls[2])
        /\ route = "/dashboard" => n = 3 /\ Succeeded(runCalls[3])
        /\ route = "/dashboard" => responseRows >= 1 /\ statusCompleted

\* a run that went through to the navigation
C6_Witness ==
    /\ route = "/dashboard"
    /\ Len(runCalls) = 3
    /\ statusCompleted

(***************************************************************************)
(* Properties of the Auth flow (specification AuthSpec)                    *)
(***************************************************************************)
AuthRunEnded == authPc = "idle" /\ authRuns > 0

ProfileNotFound ==
    /\ Len(authCalls) = 3
    /\ authCalls[1] = Call("signInWithPassword", NoError, Null)
    /\ authCalls[2].call = "getUser" /\ authCalls[2].data # Null
    /\ authCalls[3] = Call("profiles.select", NoError, Null)

\* C7: sign-in succeeded, a user was returned, the profile query returned no
\* record and no error: the notice "Profile not found. Please contact
\* support." is shown and there is no navigation.
C7_ProfileNotFound ==
    ProfileNotFound =>
        /\ AuthRunEnded
        /\ Len(authToasts) = 1
        /\ authToasts[1].description =
               Str("Profile not found. Please contact support.")
        /\ authNav = <<>>
        /\ route = "/auth"

C7_Witness == ProfileNotFound /\ AuthRunEnded /\ authToasts # <<>>

\* the messages among SignUpErrors that contain "User already registered" or,
\* case-insensitively, "already exists"
AccountExistsMessages ==
    {"User already registered",
     "A user with this email address Already Exists"}

SignUpRejectedAsExisting ==
    /\ authCalls # <<>>
    /\ authCalls[1].call = "signUp"
    /\ authCalls[1].error.isError
    /\ authCalls[1].error.message.kind = "string"
    /\ authCalls[1].error.message.str \in AccountExistsMessages

\* C8: signUp fails with an "already registered / already exists" message:
\* exactly one notice, the Account Exists one, no generic Error notice, no
\* insert into onboarding_status, no navigation.
C8_AccountExists ==
    SignUpRejectedAsExisting =>
        /\ AuthRunEnded
        /\ authToasts = <<AccountExistsToast>>
        /\ Len(authCalls) = 1
        /\ authNav = <<>>
        /\ route = "/auth"

\* the message that matches only when compared in lower case
C8_Witness ==
    /\ SignUpRejectedAsExisting
    /\ authCalls[1].error.message.str =
           "A user with this email address Already Exists"
    /\ AuthRunEnded

\* C9: a run navigates to /dashboard only after signInWithPassword returned no
\* error, getUser a user, and the profile query no error and a record, in
\* this order; otherwise the run does not navigate.
C9_DashboardOnlyOnSuccess ==
    LET signInDone ==
            /\ Len(authCalls) = 3
            /\ authCalls[1] = Call("signInWithPassword", NoError, Null)
            /\ authCalls[2].call = "getUser"
            /\ authCalls[2].error = NoError
            /\ authCalls[2].data \in Users
            /\ authCalls[3].call = "profiles.select"
            /\ authCalls[3].error = NoError
            /\ authCalls[3].data \in Users
    IN  /\ (route = "/dashboard" \/ "/dashboard" \in Range(authNav))
            => signInDone /\ authIsLogin
        /\ (AuthRunEnded /\ authIsLogin /\ ~signInDone) => authNav = <<>>

C9_Witness == route = "/dashboard" /\ authNav = <<"/dashboard">>

\* C10: every run of handleAuth ends either with a navigation or with a
\* notice; no run ends with neither.
C10_RunEndsWithOutcome ==
    AuthRunEnded => (authNav # <<>> \/ authToasts # <<>>)


SignUpOrder == <<"signUp", "setTimeout", "onboarding_status.insert">>

SignUpReturnedUser ==
    /\ authCalls # <<>>
    /\ authCalls[1].call = "signUp"
    /\ authCalls[1].error = NoError
    /\ authCalls[1].data \in Users

StatusInsertFailed ==
    /\ Len(authCalls) = 3
    /\ authCalls[3].call = "onboarding_status.insert"
    /\ authCalls[3].error.isError

\* C11: the sign-up flow runs signUp, the delay, the insert of the
\* onboarding_status row, the success notice and the navigation to
\* /onboarding in this order, each step after the one before succeeded; when
\* the insert fails after a successful signUp the account stays registered
\* with no status row, nothing is navigated to and one generic Error notice
\* is shown.
C11_SignUpOrder ==
    LET n == Len(authCalls)
    IN  /\ ~authIsLogin /\ authRuns > 0 =>
               /\ n <= Len(SignUpOrder)
               /\ \A i \in 1..n : authCalls[i].call = SignUpOrder[i]
               /\ \A i \in 1..(n - 1) : ~authCalls[i].error.isError
        /\ authPc = "delay" => n = 1 /\ SignUpReturnedUser
        /\ authPc = "insert" =>
               n = 2 /\ SignUpReturnedUser /\ authUser = authCalls[1].data
        /\ (route = "/onboarding" \/ "/onboarding" \in Range(authNav)) =>
               /\ n = 3 /\ SignUpReturnedUser
               /\ authCalls[3] = Call("onboarding_status.insert", NoError, Null)
               /\ authToasts = <<SuccessToast>>
               /\ authNav = <<"/onboarding">>
               /\ statusRows = 1
        /\ StatusInsertFailed =>
               /\ SignUpReturnedUser
               /\ registered
               /\ statusRows = 0
               /\ authNav = <<>> /\ route = "/auth"
               /\ authToasts =
                      <<[title |-> "Error",
                         description |-> Str("Failed to initialize onboarding"),
                         variant |-> "destructive"]>>

\* the account was created and the insert of its status row failed with a
\* message that itself contains "already exists"
C11_Witness ==
    /\ StatusInsertFailed
    /\ StringIncludes(authCalls[3].error.message.str, "already exists")
    /\ registered
    /\ authPc = "idle"


(***************************************************************************)
(* Further properties of the Onboarding sequencer (specification Spec)     *)
(***************************************************************************)
VisitedKeys == {questions[i + 1].key : i \in visited}

\* C12 as stated: once a question has been visited, answers holds an entry
\* for its key, the free-text question excepted.
C12_EntryOnceVisited ==
    \A k \in VisitedKeys : k # "specific_goals" => k \in DOMAIN answers

\* C12 as amended: answers holds an entry for a key exactly when
\* handleOptionToggle or handleTextInput was called on that question, which
\* happens only on visited questions; a question that was only visited has no
\* entry, whatever its type.
C12_EntryOnceAnswered ==
    /\ DOMAIN answers = touched
    /\ touched \subseteq VisitedKeys

\* every question visited, the first one answered and emptied again, the
\* others left alone
C12_Witness ==
    /\ visited = 0..(N - 1)
    /\ touched = {"learning_goals"}
    /\ answers["learning_goals"] = Arr(<<>>)


\* the last run of handleSubmit has ended in the catch block
SubmitRunFailed ==
    /\ submitPc = "idle"
    /\ runCalls # <<>>
    /\ ~Succeeded(runCalls[Len(runCalls)])

\* a step of a run of handleSubmit after its start
SubmitStep == runCalls' # runCalls /\ runs' = runs

\* C14: a failed run of handleSubmit navigates nowhere, shows exactly one
\* destructive notice and retries nothing; its steps leave currentQuestion
\* and answers as they are, and a failed update leaves the inserted response
\* row in place.
C14_SubmitFailure ==
    /\ [](SubmitRunFailed =>
              /\ route = "/onboarding"
              /\ ~loading
              /\ Len(runToasts) = 1
              /\ runToasts[1].title = "Error"
              /\ runToasts[1].variant = "destructive"
              /\ runToasts[1].description =
                     IF runCalls[Len(runCalls)].call = "getUser"
                     THEN Str("No user found")
                     ELSE runCalls[Len(runCalls)].error.message
              /\ \A i, j \in 1..Len(runCalls) :
                     runCalls[i].call = runCalls[j].call => i = j
              /\ runCalls[Len(runCalls)].call = "onboarding_status.update"
                     => responseRows >= 1 /\ ~statusCompleted)
    /\ [][SubmitStep =>
              /\ currentQuestion' = currentQuestion
              /\ answers' = answers
              /\ responseRows' >= responseRows
              /\ SubmitRunFailed' =>
                     /\ runs' = runs
                     /\ submitPc' = "idle"
                     /\ route' = route
                     /\ Len(runCalls') = Len(runCalls) + 1]_vars

\* the update failed after the response row was inserted
C14_Witness ==
    /\ SubmitRunFailed
    /\ Len(runCalls) = 3
    /\ responseRows = 1
    /\ answers # EmptyObject
\* C16: Next and Previous leave answers unchanged; handleOptionToggle and
\* handleTextInput leave currentQuestion unchanged and change only the entry
\* of the current question's key, so an answer stays stored while the user
\* moves between the questions.
C16_Frame ==
    [][/\ currentQuestion' # currentQuestion =>
              /\ answers' = answers
              /\ currentQuestion' \in {currentQuestion - 1, currentQuestion + 1}
       /\ answers' # answers =>
              /\ currentQuestion' = currentQuestion
              /\ DOMAIN answers' = DOMAIN answers \cup {currentQ.key}
              /\ \A k \in Keys \ {currentQ.key} :
                     Get(answers', k) = Get(answers, k)]_vars

\* the answers given at the first and at the last question are stored while
\* the third question is on screen
C16_Witness ==
    /\ currentQuestion = 2
    /\ Get(answers, "learning_goals") =
           Arr(<<"Improving skills", "Preparing for exams">>)
    /\ Get(answers, "specific_goals") = Str("AWS SAA")

\* the question of a key
QuestionOf(k) == CHOOSE q \in Range(questions) : q.key = k

\* C17: every entry of answers has the shape of its question's type: a
\* duplicate-free list of that question's options for a multi-select key,
\* one string among that question's options for the single-select key, a
\* string for the free-text key; answers has no key besides the five
\* question keys.
C17_AnswerShapes ==
    /\ DOMAIN answers \subseteq Keys
    /\ \A k \in DOMAIN answers :
           LET q == QuestionOf(k)
               v == answers[k]
           IN  IF q.isText
               THEN v.kind = "string" /\ v.arr = <<>>
               ELSE IF q.singleSelect
               THEN /\ v.kind = "string" /\ v.arr = <<>>
                    /\ v.str \in Range(q.options)
               ELSE /\ v.kind = "array" /\ v.str = ""
                    /\ NoDuplicates(v.arr)
                    /\ Range(v.arr) \subseteq Range(q.options)

\* all five questions answered, the first with two options
C17_Witness ==
    /\ DOMAIN answers = Keys
    /\ Len(answers["learning_goals"].arr) = 2
    /\ answers["daily_time"].str = "1 hour"
    /\ answers["specific_goals"].str = "AWS SAA"

\* a user event handled while a run of handleSubmit is suspended
EventDuringRun == pendingEvents' > pendingEvents

\* C18: the response record a run of handleSubmit inserts is built from the
\* answers as they were when Complete was activated; toggles, text input,
\* Next and Previous handled while the run is suspended change the local
\* state but neither the record nor the run, whose next call still returns
\* and whose success still navigates.
C18_RecordFromClick ==
    /\ [](submitPc = "insert" =>
              request = BuildRecord(submitUser, submitAnswers))
    /\ [](submitPc # "idle" =>
              ENABLED (SubmitGetUser \/ SubmitInsert \/ SubmitUpdate))
    /\ [][runs' # runs => submitAnswers' = answers]_vars
    /\ [][submitPc # "idle" /\ submitPc' # "idle" =>
              submitAnswers' = submitAnswers]_vars
    /\ [][EventDuringRun =>
              /\ UNCHANGED <<submitPc, submitAnswers, submitUser, request,
                             runCalls, runToasts, loading, route,
                             responseRows, statusCompleted>>]_vars
    /\ [][/\ submitPc = "update"
          /\ runCalls' # runCalls
          /\ Succeeded(runCalls'[Len(runCalls')])
          => route' = "/dashboard"]_vars

\* the insert of a run was issued with the answers of the click after the
\* user has changed the text answer during the run
C18_Witness ==
    /\ submitPc = "insert"
    /\ pendingEvents >= 1
    /\ answers # submitAnswers
    /\ request # BuildRecord(submitUser, answers)
    /\ request = BuildRecord(submitUser, submitAnswers)

(***************************************************************************)
(* Properties of both views (specification AppSpec)                        *)
(***************************************************************************)
\* C13: loading is true from the start of a run of handleAuth or handleSubmit
\* until the run ends and false once it has ended, by whatever path; when
\* every backend call and the delay return, every run ends with loading
\* false.
C13_LoadingCoversRun ==
    /\ [](loading <=> submitPc # "idle")
    /\ [](authLoading <=> authPc # "idle")
    /\ loading ~> (~loading /\ submitPc = "idle")
    /\ authLoading ~> (~authLoading /\ authPc = "idle")

\* a sign-up run ended by the early return of the account-exists case
C13_Witness ==
    /\ AuthRunEnded
    /\ ~authIsLogin
    /\ authToasts = <<AccountExistsToast>>
    /\ ~authLoading


\* C15: with runs started only through the submit control, at most one run
\* of handleSubmit (of handleAuth) is in flight: the control is disabled
\* while a run is in flight, loading is TRUE for the whole run, and a run
\* starts only from the idle position with loading FALSE.
C15_SingleRunInFlight ==
    /\ [](CompleteEnabled(currentQuestion, loading) => submitPc = "idle")
    /\ [](AuthSubmitEnabled(authLoading) => authPc = "idle")
    /\ [](submitPc # "idle" => loading)
    /\ [](authPc # "idle" => authLoading)
    /\ [][runs' # runs =>
              /\ submitPc = "idle" /\ ~loading
              /\ runs' = runs + 1
              /\ submitPc' = "getUser" /\ loading']_vars
    /\ [][authRuns' # authRuns =>
              /\ authPc = "idle" /\ ~authLoading
              /\ authRuns' = authRuns + 1
              /\ authPc' \in {"signIn", "signUp"} /\ authLoading']_vars

\* a run of handleSubmit is suspended on its second call, the user has acted
\* meanwhile and the Complete control is on screen, disabled
C15_Witness ==
    /\ submitPc = "insert"
    /\ pendingEvents >= 1
    /\ CompleteRendered(currentQuestion)
    /\ ~CompleteEnabled(currentQuestion, loading)

====
